---- MODULE Spec2Model ----
(***************************************************************************)
(* Model of the editing-desk client (src/src/App.jsx and its sibling       *)
(* revision src/unnamed/part_000): the input controls, handleAnalyze,      *)
(* fetchGeminiAnalysis with its retry loop, and the cleaning and parsing   *)
(* of the response text.  Texts that are parsed are sequences of           *)
(* one-character strings.  Every asynchronous run of handleAnalyze is a    *)
(* submission; it works on the values its render closure captured.         *)
(***************************************************************************)
EXTENDS Integers, Sequences, FiniteSets, TLC

\* ------------------------------------------------------------------ bounds
\* Network calls one behaviour may issue.
MaxCalls == 4
\* Chunks a generated string value of the fence round trip is built from.
MaxChunks == 3

\* ------------------------------------------------------- program constants
\* (variant: a loop that allows a fourth attempt)
maxRetries_four == 3 + 1
maxRetries == 3
DefaultHeadlines == 10
HeadlineOptions == {5 + i * 4 : i \in 0..4}

\* The two revisions of the component: part_000 clears the previous analysis
\* when a run of fetchGeminiAnalysis starts, App.jsx does not.
Builds == {"App.jsx", "part_000"}

\* ------------------------------------------------------------ characters
DQ == "\""
\* The backtick character (written out: the lexer reads a backtick inside a
\* string as the start of a quotation).
BT == "BACKTICK"
WhiteSpace == {" ", "\n"}
Fence == <<BT, BT, BT>>
FenceJson == <<BT, BT, BT, "j", "s", "o", "n">>

StartsWith(s, p) == Len(s) >= Len(p) /\ SubSeq(s, 1, Len(p)) = p
Drop(s, n) == SubSeq(s, n + 1, Len(s))

\* String.prototype.trim
RECURSIVE TrimLeft(_)
TrimLeft(s) ==
  IF s = <<>> THEN s
  ELSE IF Head(s) \in WhiteSpace THEN TrimLeft(Tail(s)) ELSE s

RECURSIVE TrimRight(_)
TrimRight(s) ==
  IF s = <<>> THEN s
  ELSE IF s[Len(s)] \in WhiteSpace THEN TrimRight(SubSeq(s, 1, Len(s) - 1)) ELSE s

trim(s) == TrimRight(TrimLeft(s))

\* jsonText.replace(/```json|```/g, ''): one left-to-right pass that deletes
\* every match, the longer alternative first, wherever it stands in the text.
RECURSIVE replaceFences(_)
replaceFences(s) ==
  IF s = <<>> THEN <<>>
  ELSE IF StartsWith(s, FenceJson) THEN replaceFences(Drop(s, Len(FenceJson)))
  ELSE IF StartsWith(s, Fence) THEN replaceFences(Drop(s, Len(Fence)))
  ELSE <<Head(s)>> \o replaceFences(Tail(s))

cleanedJsonText(jsonText) == trim(replaceFences(jsonText))

\* ------------------------------------------------------------ JSON.parse
\* The values of the modelled JSON subset: null, a string, and an object of
\* at most one member whose value is a string.
JNull == [kind |-> "null", str |-> <<>>, members |-> <<>>]
JString(s) == [kind |-> "string", str |-> s, members |-> <<>>]
JObject(m) == [kind |-> "object", str |-> <<>>, members |-> m]

SyntaxError == [ok |-> FALSE, value |-> JNull]
Parsed(v) == [ok |-> TRUE, value |-> v]

\* A string literal: quotes around characters that are neither a quote nor a
\* raw line break (escapes are outside the modelled alphabet).
IsStringLiteral(s) ==
  /\ Len(s) >= 2
  /\ s[1] = DQ
  /\ s[Len(s)] = DQ
  /\ \A i \in 2..(Len(s) - 1) : s[i] # DQ /\ s[i] # "\n"

LiteralValue(s) == SubSeq(s, 2, Len(s) - 1)

\* Index of the first quote of s after position 1, 0 when there is none.
ClosingQuote(s) ==
  LET qs == {i \in 2..Len(s) : s[i] = DQ}
  IN IF qs = {} THEN 0 ELSE CHOOSE i \in qs : \A j \in qs : i <= j

\* One member  "key" : "value"  of an object.
ParseMember(m) ==
  IF m = <<>> \/ Head(m) # DQ \/ ClosingQuote(m) = 0 THEN SyntaxError
  ELSE
    LET k    == ClosingQuote(m)
        key  == SubSeq(m, 1, k)
        rest == TrimLeft(Drop(m, k))
    IN IF ~IsStringLiteral(key) \/ rest = <<>> \/ Head(rest) # ":" THEN SyntaxError
       ELSE LET val == trim(Tail(rest))
            IN IF IsStringLiteral(val)
               THEN Parsed(JObject(<< <<LiteralValue(key), LiteralValue(val)>> >>))
               ELSE SyntaxError

JSONparse(text) ==
  LET t == trim(text)
  IN IF t = <<"n", "u", "l", "l">> THEN Parsed(JNull)
     ELSE IF IsStringLiteral(t) THEN Parsed(JString(LiteralValue(t)))
     ELSE IF Len(t) >= 2 /\ t[1] = "{" /\ t[Len(t)] = "}"
          THEN LET inner == trim(SubSeq(t, 2, Len(t) - 1))
               IN IF inner = <<>> THEN Parsed(JObject(<<>>)) ELSE ParseMember(inner)
     ELSE SyntaxError

\* JavaScript truthiness of a parsed value (the refresh buttons test it).
Truthy(v) == v.kind = "object" \/ (v.kind = "string" /\ v.str # <<>>)

\* ------------------------------------------------------- the environment
\* What the user can type and select, and what the network can answer.
NoFile == "none"
Files == {"a.png"}
Article == "The cow eat grass."
\* handleFileChange's placeholder for a selected file.
\* (variant: selecting a file leaves the text empty)
Placeholder_empty(file) == ""
Placeholder(file) ==
  IF file = "a.png"
  THEN "--- Image file selected: a.png --- (Content will be transcribed by AI)"
  ELSE "--- Image file selected --- (Content will be transcribed by AI)"
TextInputs == {"", Article}
\* The options of the selector the user picks in a behaviour.
HeadlinePicks == {n \in HeadlineOptions : n = 5}

\* reader.result.split(',')[1]: the data of the file; the files the user
\* selects are not empty.
Base64Results == {"b64"}

ObjText(v) == <<"{", DQ, "t", DQ, ":", DQ>> \o v \o <<DQ, "}">>
PlainJson == ObjText(<<"a">>)
FencedJson == FenceJson \o <<"\n">> \o PlainJson \o <<"\n">> \o Fence
NullJson == <<"n", "u", "l", "l">>
BrokenJson == <<"{", DQ, "t", DQ, ":">>
ResponseTexts == {PlainJson, FencedJson, NullJson, BrokenJson}

\* A response of fetch: it rejects ("exception"), or resolves with an HTTP
\* status that is not ok ("http"), or resolves ok with the first candidate's
\* text (<<>> when absent or empty) and finish reason.
Response(kind, text, finishReason) ==
  [kind |-> kind, text |-> text, finishReason |-> finishReason]
Responses ==
  {Response("exception", <<>>, ""), Response("http", <<>>, ""),
   Response("ok", <<>>, "SAFETY"), Response("ok", <<>>, "STOP")}
  \cup {Response("ok", t, "STOP") : t \in ResponseTexts}

\* --------------------------------------------------------------- messages
\* The error state is a string in the code; here a record of its fixed text,
\* the attempt count and the cause it interpolates.
Message(text, attempts, cause) == [text |-> text, attempts |-> attempts, cause |-> cause]
NoError == Message("", 0, "")
NoInputSelected == Message("Please paste text or select an image.", 0, "")
NoInputProvided == Message("Please provide text or an image to analyze.", 0, "")
ConversionFailed == Message("Failed to convert image to base64.", 0, "")
AnalysisFailed(cause) == Message("Analysis failed after attempts.", maxRetries, cause)

FetchRejected == "Failed to fetch"
HttpError == "HTTP error! status"
SafetyBlocked == "AI output was blocked due to safety settings. Please adjust the input text."
NoJsonContent == "AI returned no JSON content. The prompt might be too complex or the model failed."
JsonSyntaxError == "SyntaxError"

\* ------------------------------------------------------------------ state
VARIABLES
  build,            \* which revision runs
  inputText,        \* useState('')
  imageFile,        \* useState(null)
  isLoading,        \* useState(false)
  numHeadlines,     \* useState(10)
  currentAnalysis,  \* useState(null)
  error,            \* useState('')
  subs,             \* the runs of handleAnalyze, by slot
  fetches,          \* network calls issued so far
  jsonDoc,          \* fence round trip: the well-formed JSON text
  wrapped,          \* fence round trip: the text as the response carries it
  viaPipeline,      \* fence round trip: result of cleaning and parsing wrapped
  direct,           \* fence round trip: result of parsing jsonDoc
  stage,            \* fence round trip: position
  firebaseConfig,   \* "present", or "empty" when __firebase_config is undefined
  initialAuthToken, \* the provided token, "" when there is none (null)
  currentUser,      \* authInstance.currentUser: "none" or the signed-in identity
  userId,           \* useState(null), "none" for null and undefined
  isAuthReady,      \* useState(false)
  bootstrap         \* the effect and its onAuthStateChanged callback

appVars == <<build, inputText, imageFile, isLoading, numHeadlines, currentAnalysis, error,
             subs, fetches>>
parseVars == <<jsonDoc, wrapped, viaPipeline, direct, stage>>
authVars == <<firebaseConfig, initialAuthToken, currentUser, userId, isAuthReady, bootstrap>>
vars == <<build, inputText, imageFile, isLoading, numHeadlines, currentAnalysis, error,
          subs, fetches, jsonDoc, wrapped, viaPipeline, direct, stage,
          firebaseConfig, initialAuthToken, currentUser, userId, isAuthReady, bootstrap>>

\* Two slots: a run, and one run started while the first is unfinished.
SubIds == {1, 2}

\* A slot without a run.  inputText, imageFile and numHeadlines of a run are the
\* values of the render closure it was started from; calls, delays, prompts,
\* errorsSet, resultsSet, raisedLoading, transportOnly (every failed attempt
\* so far was a rejected fetch or a non-ok status) and failures (the message
\* of each failed attempt, in order) record what the run did.
IdleSub ==
  [pc |-> "idle", inputText |-> "", imageFile |-> NoFile,
   numHeadlines |-> DefaultHeadlines, base64Image |-> "", attempt |-> 0,
   lastError |-> "", calls |-> 0, delays |-> <<>>, prompts |-> <<>>,
   errorsSet |-> 0, resultsSet |-> 0, raisedLoading |-> FALSE, transportOnly |-> TRUE,
   failures |-> <<>>]

\* The record of a finished run is kept for the one state that follows its end;
\* every later step works on the slots with the finished runs cleared.
Runs == [i \in SubIds |-> IF subs[i].pc = "done" THEN IdleSub ELSE subs[i]]

InitApp ==
  /\ inputText = ""
  /\ imageFile = NoFile
  /\ isLoading = FALSE
  /\ numHeadlines = DefaultHeadlines
  /\ currentAnalysis = JNull
  /\ error = NoError
  /\ subs = [i \in SubIds |-> IdleSub]
  /\ fetches = 0

ParseIdle ==
  /\ jsonDoc = <<>>
  /\ wrapped = <<>>
  /\ viaPipeline = SyntaxError
  /\ direct = SyntaxError
  /\ stage = "off"

\* The bootstrap of a page without a Firebase configuration: the effect has
\* returned at its first test, nothing is registered and nobody signs in.
\* pc is the position of the effect and of the callback invocation that found
\* no user, queued tells that the listener is still to be called with the
\* current user, tried lists the sign-in methods attempted, token is the
\* outcome of the sign-in with the token.
NoBootstrap ==
  /\ firebaseConfig = "empty"
  /\ initialAuthToken = ""
  /\ currentUser = "none"
  /\ userId = "none"
  /\ isAuthReady = FALSE
  /\ bootstrap = [pc |-> "off", queued |-> FALSE, tried |-> <<>>, token |-> "none"]

\* The revision of src/src/App.jsx.
Init == build = "App.jsx" /\ InitApp /\ ParseIdle /\ NoBootstrap

\* The revision of src/unnamed/part_000.
InitRevision == build = "part_000" /\ InitApp /\ ParseIdle /\ NoBootstrap

\* ------------------------------------------------------ fetchGeminiAnalysis
\* !x of a string (or of null, which "" stands for as well).
\* (variant: a test that an empty string passes)
Falsy_never(x) == FALSE
Falsy(x) == x = ""

\* const delay = Math.pow(2, attempt) * 1000
\* (variant: the same delay after every attempt)
delay_flat(attempt) == 1000
delay(attempt) == (2 ^ attempt) * 1000

\* if (attempt < maxRetries - 1): a wait follows the failed attempt
\* (variants: no wait at all; a wait after the first attempt only; a wait
\* after the second attempt only)
WaitsAfter_never(attempt) == FALSE
WaitsAfter_first(attempt) == attempt < 1
WaitsAfter_second(attempt) == attempt = 1
WaitsAfter(attempt) == attempt < maxRetries - 1

\* await fetch(apiUrl, ...): one network call, carrying the prompt with the
\* closure's numHeadlines.
\* (variant: the prompt carries the selector's value at the time of the call)
IssueFetch_live(s) ==
  [s EXCEPT !.pc = "fetching", !.calls = @ + 1, !.prompts = Append(@, numHeadlines)]
IssueFetch(s) ==
  [s EXCEPT !.pc = "fetching", !.calls = @ + 1, !.prompts = Append(@, s.numHeadlines)]

TransportErrors == {FetchRejected, HttpError}

\* The message of the error one attempt throws on response r, "" when the
\* attempt succeeds.
attemptError(r) ==
  IF r.kind = "exception" THEN FetchRejected
  ELSE IF r.kind = "http" THEN HttpError
  ELSE IF r.text = <<>>
       THEN (IF r.finishReason = "SAFETY" THEN SafetyBlocked ELSE NoJsonContent)
  ELSE IF ~JSONparse(cleanedJsonText(r.text)).ok THEN JsonSyntaxError
  ELSE ""

\* What the body of the try block makes of each response: the message of the
\* error it throws ("" when it succeeds) and the value it stores on success.
Outcome ==
  [r \in Responses |->
     [error |-> attemptError(r),
      value |-> IF attemptError(r) = "" THEN JSONparse(cleanedJsonText(r.text)).value
                ELSE JNull]]

\* catch (e) { lastError = e; ... }: the run's state after attempt's error e
\* was caught.
\* (variant: the first error caught is kept)
Caught_first(s, e) ==
  [s EXCEPT !.lastError = IF @ = "" THEN e ELSE @,
            !.transportOnly = @ /\ e \in TransportErrors,
            !.failures = Append(@, e)]
Caught(s, e) ==
  [s EXCEPT !.lastError = e,
            !.transportOnly = @ /\ e \in TransportErrors,
            !.failures = Append(@, e)]

\* The parts of the request a run sends: the article text of its prompt and
\* the inline image data ("" when the request has no image part).
payload(s) == [text |-> s.inputText, image |-> s.base64Image]

\* fetchGeminiAnalysis from its entry to its first await, called by the run in
\* slot id, whose state is s.
fetchGeminiAnalysis(id, s, base64Image, textInput) ==
  IF Falsy(textInput) /\ Falsy(base64Image)
  THEN /\ error' = NoInputProvided
       /\ subs' = [Runs EXCEPT ![id] = [s EXCEPT !.pc = "done", !.errorsSet = @ + 1]]
       /\ UNCHANGED <<isLoading, currentAnalysis, fetches>>
  ELSE /\ fetches < MaxCalls
       /\ fetches' = fetches + 1
       /\ isLoading' = TRUE
       /\ error' = NoError
       /\ currentAnalysis' = IF build = "part_000" THEN JNull ELSE currentAnalysis
       /\ subs' = [Runs EXCEPT ![id] =
                     IssueFetch([s EXCEPT !.base64Image = base64Image,
                                          !.raisedLoading = TRUE,
                                          !.attempt = 0])]

\* attempt++ and the loop test: the next fetch while attempt < maxRetries, else
\* the statements after the loop.  s is the run's state after its catch block.
NextAttempt(id, s) ==
  IF s.attempt + 1 < maxRetries
  THEN /\ fetches < MaxCalls
       /\ fetches' = fetches + 1
       /\ subs' = [Runs EXCEPT ![id] = IssueFetch([s EXCEPT !.attempt = @ + 1])]
       /\ UNCHANGED <<isLoading, error, currentAnalysis>>
  ELSE /\ isLoading' = FALSE
       /\ error' = AnalysisFailed(s.lastError)
       /\ subs' = [Runs EXCEPT ![id] = [s EXCEPT !.pc = "done",
                                                  !.attempt = @ + 1,
                                                  !.errorsSet = @ + 1]]
       /\ UNCHANGED <<currentAnalysis, fetches>>

\* The pending fetch of the run in slot id settles with response r: the rest
\* of the loop body, up to the next await or to the end of the function.
FetchSettles(id, r) ==
  /\ subs[id].pc = "fetching"
  /\ LET s == subs[id]
         e == Outcome[r].error
     IN IF e = ""
        THEN /\ currentAnalysis' = Outcome[r].value
             /\ isLoading' = FALSE
             /\ subs' = [Runs EXCEPT ![id] = [s EXCEPT !.pc = "done",
                                                        !.resultsSet = @ + 1]]
             /\ UNCHANGED <<error, fetches>>
        ELSE LET c == Caught(s, e)
             IN IF WaitsAfter(s.attempt)
                THEN /\ subs' = [Runs EXCEPT ![id] =
                                   [c EXCEPT !.pc = "backoff",
                                             !.delays = Append(@, delay(s.attempt))]]
                     /\ UNCHANGED <<isLoading, error, currentAnalysis, fetches>>
                ELSE NextAttempt(id, c)
  /\ UNCHANGED <<build, inputText, imageFile, numHeadlines, parseVars, authVars>>

\* The backoff timer of the run in slot id fires.
\* (variant: the timer's callback is never run)
TimerFires_lost(id) == FALSE
TimerFires(id) ==
  /\ subs[id].pc = "backoff"
  /\ NextAttempt(id, subs[id])
  /\ UNCHANGED <<build, inputText, imageFile, numHeadlines, parseVars, authVars>>

\* ------------------------------------------------------------ handleAnalyze
FreeSlots == {i \in SubIds : Runs[i].pc = "idle"}

\* handleAnalyze from its entry to its first await; the new run takes the
\* first free slot.
handleAnalyze ==
  /\ FreeSlots # {}
  /\ LET id == CHOOSE i \in FreeSlots : \A j \in FreeSlots : i <= j
         s  == [IdleSub EXCEPT !.inputText = inputText, !.imageFile = imageFile,
                               !.numHeadlines = numHeadlines]
     IN IF Falsy(inputText) /\ imageFile = NoFile
        THEN /\ error' = NoInputSelected
             /\ subs' = [Runs EXCEPT ![id] = [s EXCEPT !.pc = "done", !.errorsSet = @ + 1]]
             /\ UNCHANGED <<isLoading, currentAnalysis, fetches>>
        ELSE IF imageFile # NoFile
        THEN /\ subs' = [Runs EXCEPT ![id] = [s EXCEPT !.pc = "converting"]]
             /\ UNCHANGED <<isLoading, error, currentAnalysis, fetches>>
        ELSE fetchGeminiAnalysis(id, s, "", inputText)
  /\ UNCHANGED <<build, inputText, imageFile, numHeadlines, parseVars, authVars>>

\* fileToBase64 resolves with data: handleAnalyze goes on into
\* fetchGeminiAnalysis.
ConversionResolves(id, data) ==
  /\ subs[id].pc = "converting"
  /\ fetchGeminiAnalysis(id, subs[id], data, subs[id].inputText)
  /\ UNCHANGED <<build, inputText, imageFile, numHeadlines, parseVars, authVars>>

\* fileToBase64 rejects (reader.onerror).
\* (variant: the rejection is handled like an exhausted retry loop)
ConversionRejects_asExhausted(id) ==
  /\ subs[id].pc = "converting"
  /\ error' = AnalysisFailed(ConversionFailed.text)
  /\ isLoading' = FALSE
  /\ subs' = [Runs EXCEPT ![id] = [subs[id] EXCEPT !.pc = "done", !.errorsSet = @ + 1]]
  /\ UNCHANGED <<build, inputText, imageFile, numHeadlines, currentAnalysis,
                 fetches, parseVars, authVars>>
ConversionRejects(id) ==
  /\ subs[id].pc = "converting"
  /\ error' = ConversionFailed
  /\ subs' = [Runs EXCEPT ![id] = [subs[id] EXCEPT !.pc = "done", !.errorsSet = @ + 1]]
  /\ UNCHANGED <<build, inputText, imageFile, isLoading, numHeadlines, currentAnalysis,
                 fetches, parseVars, authVars>>

\* ---------------------------------------------------------------- controls
\* The "Analyze" button: disabled={isLoading || (!inputText && !imageFile)}
ClickAnalyze ==
  /\ ~isLoading
  /\ ~(Falsy(inputText) /\ imageFile = NoFile)
  /\ handleAnalyze

\* The "Refresh" buttons: disabled={isLoading || !currentAnalysis}
ClickRefresh ==
  /\ ~isLoading
  /\ Truthy(currentAnalysis)
  /\ handleAnalyze

\* The textarea's onChange (disabled={isLoading}).
onChangeText(t) ==
  /\ ~isLoading
  /\ t # inputText
  /\ inputText' = t
  /\ imageFile' = NoFile
  /\ subs' = Runs
  /\ UNCHANGED <<fetches, build, isLoading, numHeadlines, currentAnalysis, error, parseVars, authVars>>

\* The file input's onChange (disabled={isLoading}); file is NoFile when the
\* selection is cancelled.
handleFileChange(file) ==
  /\ ~isLoading
  /\ IF file # NoFile
     THEN imageFile' = file /\ inputText' = Placeholder(file)
     ELSE imageFile' = NoFile /\ inputText' = ""
  /\ subs' = Runs
  /\ UNCHANGED <<fetches, build, isLoading, numHeadlines, currentAnalysis, error, parseVars, authVars>>

\* The headline selector's onChange (disabled={isLoading}).
onChangeHeadlines(n) ==
  /\ ~isLoading
  /\ n # numHeadlines
  /\ numHeadlines' = n
  /\ subs' = Runs
  /\ UNCHANGED <<fetches, build, inputText, imageFile, isLoading, currentAnalysis, error, parseVars, authVars>>

Next ==
  \/ \E t \in TextInputs : onChangeText(t)
  \/ \E f \in Files \cup {NoFile} : handleFileChange(f)
  \/ \E n \in HeadlinePicks : onChangeHeadlines(n)
  \/ ClickAnalyze
  \/ ClickRefresh
  \/ \E id \in SubIds, data \in Base64Results : ConversionResolves(id, data)
  \/ \E id \in SubIds : ConversionRejects(id)
  \/ \E id \in SubIds, r \in Responses : FetchSettles(id, r)
  \/ \E id \in SubIds : TimerFires(id)

Spec == Init /\ [][Next]_vars

SpecRevision == InitRevision /\ [][Next]_vars

\* ----------------------------------------------------------- termination
\* A session in which the calls made so far left nothing on the screen and
\* the calls still allowed are those of one full retry loop.
InitLive ==
  /\ build = "App.jsx"
  /\ inputText = ""
  /\ imageFile = NoFile
  /\ isLoading = FALSE
  /\ numHeadlines = DefaultHeadlines
  /\ currentAnalysis = JNull
  /\ error = NoError
  /\ subs = [i \in SubIds |-> IdleSub]
  /\ fetches = MaxCalls - maxRetries
  /\ ParseIdle
  /\ NoBootstrap

\* Every pending fetch settles and every pending timer fires.
CallsAndTimersComplete ==
  \A id \in SubIds :
    /\ WF_vars(\E r \in Responses : FetchSettles(id, r))
    /\ WF_vars(TimerFires(id))

SpecLive == InitLive /\ [][Next]_vars /\ CallsAndTimersComplete

\* ------------------------------------------------------ identity bootstrap
\* Who can be signed in: nobody, the user of an earlier session, the user of
\* the provided token, an anonymous user.
Identities == {"existing", "custom", "anonymous"}
Tokens == {"", "tok"}

\* A page that has just been rendered for the first time, with the calls still
\* allowed those of one failed attempt and its retry.
InitAuth ==
  /\ build = "App.jsx"
  /\ inputText = ""
  /\ imageFile = NoFile
  /\ isLoading = FALSE
  /\ numHeadlines = DefaultHeadlines
  /\ currentAnalysis = JNull
  /\ error = NoError
  /\ subs = [i \in SubIds |-> IdleSub]
  /\ fetches = MaxCalls - 2
  /\ ParseIdle
  /\ firebaseConfig \in {"empty", "present"}
  /\ initialAuthToken \in Tokens
  /\ currentUser \in {"none", "existing"}
  /\ userId = "none"
  /\ isAuthReady = FALSE
  /\ bootstrap = [pc |-> "mount", queued |-> FALSE, tried |-> <<>>, token |-> "none"]

\* The effect of the first render: without a configuration it returns; else
\* it initialises Firebase (which throws when initOk is false, and the catch
\* logs it) and registers the listener, which is then called with the
\* current user.
useEffect(initOk) ==
  /\ bootstrap.pc = "mount"
  /\ bootstrap' =
       IF firebaseConfig = "empty" \/ ~initOk
       THEN [bootstrap EXCEPT !.pc = "off"]
       ELSE [bootstrap EXCEPT !.pc = "listening", !.queued = TRUE]
  /\ UNCHANGED <<appVars, parseVars, firebaseConfig, initialAuthToken, currentUser,
                 userId, isAuthReady>>

\* The listener is called with the current user, up to its first await or to
\* its end.
onAuthStateChanged ==
  /\ bootstrap.queued
  /\ IF currentUser = "none"
     THEN /\ bootstrap' =
               IF initialAuthToken # ""
               THEN [bootstrap EXCEPT !.pc = "token", !.queued = FALSE,
                                      !.tried = Append(@, "token"), !.token = "pending"]
               ELSE [bootstrap EXCEPT !.pc = "anonymous", !.queued = FALSE,
                                      !.tried = Append(@, "anonymous")]
          /\ UNCHANGED <<userId, isAuthReady>>
     ELSE /\ bootstrap' = [bootstrap EXCEPT !.queued = FALSE]
          /\ userId' = currentUser
          /\ isAuthReady' = TRUE
  /\ UNCHANGED <<appVars, parseVars, firebaseConfig, initialAuthToken, currentUser>>

\* await signInWithCustomToken(authInstance, initialAuthToken) settles: on
\* success the callback goes on to setUserId and setIsAuthReady and the
\* listener is called again with the new user; on failure the catch calls
\* signInAnonymously.
\* (variant: the anonymous sign-in follows the token sign-in in any case)
signInWithCustomToken_thenAnonymous(ok) ==
  /\ bootstrap.pc = "token"
  /\ bootstrap' = [bootstrap EXCEPT !.pc = "anonymous",
                                    !.tried = Append(@, "anonymous"),
                                    !.token = IF ok THEN "ok" ELSE "failed"]
  /\ currentUser' = IF ok THEN "custom" ELSE currentUser
  /\ UNCHANGED <<appVars, parseVars, firebaseConfig, initialAuthToken, userId, isAuthReady>>
signInWithCustomToken(ok) ==
  /\ bootstrap.pc = "token"
  /\ IF ok
     THEN /\ currentUser' = "custom"
          /\ userId' = "custom"
          /\ isAuthReady' = TRUE
          /\ bootstrap' = [bootstrap EXCEPT !.pc = "done", !.queued = TRUE, !.token = "ok"]
     ELSE /\ bootstrap' = [bootstrap EXCEPT !.pc = "anonymous",
                                           !.tried = Append(@, "anonymous"),
                                           !.token = "failed"]
          /\ UNCHANGED <<currentUser, userId, isAuthReady>>
  /\ UNCHANGED <<appVars, parseVars, firebaseConfig, initialAuthToken>>

\* await signInAnonymously(authInstance) settles: on failure the callback's
\* promise rejects and its last two statements are not reached.
signInAnonymously(ok) ==
  /\ bootstrap.pc = "anonymous"
  /\ IF ok
     THEN /\ currentUser' = "anonymous"
          /\ userId' = "anonymous"
          /\ isAuthReady' = TRUE
          /\ bootstrap' = [bootstrap EXCEPT !.pc = "done", !.queued = TRUE]
     ELSE /\ bootstrap' = [bootstrap EXCEPT !.pc = "rejected"]
          /\ UNCHANGED <<currentUser, userId, isAuthReady>>
  /\ UNCHANGED <<appVars, parseVars, firebaseConfig, initialAuthToken>>

NextAuth ==
  \/ Next
  \/ \E initOk \in BOOLEAN : useEffect(initOk)
  \/ onAuthStateChanged
  \/ \E ok \in BOOLEAN : signInWithCustomToken(ok)
  \/ \E ok \in BOOLEAN : signInAnonymously(ok)

SpecAuth == InitAuth /\ [][NextAuth]_vars

\* ------------------------------------------------- the cleaning and parsing
\* String values built of at most n chunks: a letter, a blank, and the two
\* fence markers.
Chunks == {<<"a">>, <<" ">>, Fence, FenceJson}

RECURSIVE ChunkStrings(_)
ChunkStrings(n) ==
  IF n = 0 THEN {<<>>}
  ELSE LET shorter == ChunkStrings(n - 1)
       IN shorter \cup {p \o c : p \in shorter, c \in Chunks}

\* Well-formed JSON texts: objects of one string member, string documents,
\* the empty object and null.
WellFormedJson ==
  {ObjText(v) : v \in ChunkStrings(MaxChunks)}
  \cup {<<DQ>> \o v \o <<DQ>> : v \in ChunkStrings(1)}
  \cup {<<"{", "}">>, NullJson}

\* The two ways a model wraps its JSON in a code fence.
FenceStyles == {"json", "plain"}
InFence(style, text) ==
  (IF style = "json" THEN FenceJson ELSE Fence) \o <<"\n">> \o text \o <<"\n">> \o Fence

InitParse ==
  /\ build = "App.jsx"
  /\ InitApp
  /\ jsonDoc \in WellFormedJson
  /\ wrapped = <<>>
  /\ viaPipeline = SyntaxError
  /\ direct = SyntaxError
  /\ stage = "start"
  /\ NoBootstrap

\* The response carries jsonDoc inside a code fence.
WrapInFence(style) ==
  /\ stage = "start"
  /\ wrapped' = InFence(style, jsonDoc)
  /\ stage' = "wrapped"
  /\ UNCHANGED <<appVars, authVars, jsonDoc, viaPipeline, direct>>

\* What fetchGeminiAnalysis makes of the wrapped text.
ParseWrapped ==
  /\ stage = "wrapped"
  /\ viaPipeline' = JSONparse(cleanedJsonText(wrapped))
  /\ stage' = "cleaned"
  /\ UNCHANGED <<appVars, authVars, jsonDoc, wrapped, direct>>

\* JSON.parse of the text itself.
ParseDirect ==
  /\ stage = "cleaned"
  /\ direct' = JSONparse(jsonDoc)
  /\ stage' = "done"
  /\ UNCHANGED <<appVars, authVars, jsonDoc, wrapped, viaPipeline>>

NextParse ==
  \/ \E style \in FenceStyles : WrapInFence(style)
  \/ ParseWrapped
  \/ ParseDirect

SpecParse == InitParse /\ [][NextParse]_vars

\* ------------------------------------------------------------ the claims
Unfinished(i) == subs[i].pc \in {"converting", "fetching", "backoff"}
Finished(i) == subs[i].pc = "done"
\* The message the code shows after three failed attempts, the last with cause.
FailedAfterThree(cause) ==
  [text |-> "Analysis failed after attempts.", attempts |-> 3, cause |-> cause]

\* What a successful attempt can store: the values of the response texts that
\* parse.
StoredResults ==
  {JSONparse(cleanedJsonText(t)).value :
     t \in {u \in ResponseTexts : JSONparse(cleanedJsonText(u)).ok}}

\* C1: a run whose first response is ok without text and has finish reason
\* SAFETY is over after that one call: it has set its error, and no backoff
\* delay was taken.
C1_SafetyBlockEndsAfterOneCall ==
  \A i \in SubIds :
    (subs[i].lastError = SafetyBlocked /\ subs[i].calls = 1)
      => (Finished(i) /\ subs[i].errorsSet = 1 /\ subs[i].delays = <<>>)

C3_ThreeCallsThenError ==
  \A i \in SubIds :
    /\ subs[i].calls <= 3
    /\ (Finished(i) /\ subs[i].calls > 0 /\ subs[i].resultsSet = 0)
         => /\ subs[i].calls = 3
            /\ subs[i].errorsSet = 1
            /\ error = FailedAfterThree(subs[i].lastError)
    /\ (Finished(i) /\ subs[i].calls \in {1, 2})
         => (subs[i].resultsSet = 1 /\ subs[i].errorsSet = 0)

\* C3 witness: a run all of whose three attempts were rejected fetches or
\* non-ok statuses has ended with its error.
C3_Witness ==
  \E i \in SubIds :
    /\ Finished(i)
    /\ subs[i].transportOnly
    /\ subs[i].lastError = HttpError
    /\ subs[i].calls = 3
    /\ subs[i].errorsSet = 1
    /\ subs[i].inputText = Article

\* C4: the k-th delay of a run is 2^(k-1) * 1000; a pending call was preceded
\* by one delay per earlier call (none before the first), a pending timer
\* follows the latest call, and at most 2 delays are ever taken (none after
\* the third call).  A run that succeeds on its third call took the delays
\* 1000 and 2000, stored its result and set no error.
C4_BackoffSchedule ==
  \A i \in SubIds :
    /\ Len(subs[i].delays) <= 2
    /\ \A k \in 1..Len(subs[i].delays) : subs[i].delays[k] = (2 ^ (k - 1)) * 1000
    /\ subs[i].pc = "fetching" => Len(subs[i].delays) = subs[i].calls - 1
    /\ subs[i].pc = "backoff" => Len(subs[i].delays) = subs[i].calls
    /\ (Finished(i) /\ subs[i].calls > 0 /\ subs[i].resultsSet = 0)
         => Len(subs[i].delays) = 2
    /\ (Finished(i) /\ subs[i].calls = 3 /\ subs[i].resultsSet = 1)
         => /\ subs[i].delays = <<1000, 2000>>
            /\ subs[i].errorsSet = 0
            /\ currentAnalysis \in StoredResults

\* C4 witness: a run has succeeded on its third call.
C4_Witness ==
  \E i \in SubIds :
    /\ Finished(i)
    /\ subs[i].calls = 3
    /\ subs[i].resultsSet = 1
    /\ subs[i].delays = <<1000, 2000>>
    /\ Truthy(currentAnalysis)

\* C5: a run started with empty text and no image is over at once, with the
\* no-input error set, no network call made and the loading flag not raised.
C5_NoInputNoCall ==
  \A i \in SubIds :
    (subs[i].pc # "idle" /\ subs[i].inputText = "" /\ subs[i].imageFile = NoFile)
      => /\ Finished(i)
         /\ subs[i].calls = 0
         /\ ~subs[i].raisedLoading
         /\ subs[i].errorsSet = 1
         /\ subs[i].resultsSet = 0
         /\ error \in {NoInputSelected, NoInputProvided}

\* C5 witness: a refresh with the inputs emptied has ended with the no-input
\* error.
C5_Witness ==
  \E i \in SubIds :
    /\ Finished(i)
    /\ subs[i].inputText = ""
    /\ subs[i].imageFile = NoFile
    /\ error = NoInputSelected
    /\ ~isLoading

\* C6: after an ok response without text and without the SAFETY reason the
\* run goes on as after any failed attempt: it waits, then issues the next
\* call, while fewer than 3 calls were made; it ends with the error only after
\* the third call; and when a later call succeeds the run ends with a result
\* and no error of its own.
C6_EmptyResponseIsRetried ==
  \A i \in SubIds :
    subs[i].lastError = NoJsonContent
      => \/ /\ subs[i].pc = "backoff"
            /\ subs[i].calls \in {1, 2}
            /\ Len(subs[i].delays) = subs[i].calls
         \/ /\ subs[i].pc = "fetching"
            /\ subs[i].calls \in {2, 3}
            /\ Len(subs[i].delays) = subs[i].calls - 1
         \/ /\ Finished(i)
            /\ subs[i].resultsSet = 1
            /\ subs[i].errorsSet = 0
            /\ subs[i].calls \in {2, 3}
         \/ /\ Finished(i)
            /\ subs[i].resultsSet = 0
            /\ subs[i].errorsSet = 1
            /\ subs[i].calls = 3

\* C6 witness: a run whose first response was empty has succeeded on its
\* second call.
C6_Witness ==
  \E i \in SubIds :
    /\ Finished(i)
    /\ subs[i].lastError = NoJsonContent
    /\ subs[i].calls = 2
    /\ subs[i].resultsSet = 1

\* C7: at most one run is unfinished at a time, so network calls or backoff
\* timers of two runs are never pending together.
C7_OneSubmissionInFlight ==
  Cardinality({i \in SubIds : subs[i].pc \in {"fetching", "backoff"}}) <= 1

\* C8: a finished run has produced exactly one outcome: an error message,
\* which is then shown, or an analysis result, which is then in the
\* current-result slot; never both and never neither.
C8_OneErrorOrOneResult ==
  \A i \in SubIds :
    Finished(i)
      => \/ /\ subs[i].errorsSet = 1
            /\ subs[i].resultsSet = 0
            /\ error # NoError
         \/ /\ subs[i].resultsSet = 1
            /\ subs[i].errorsSet = 0
            /\ currentAnalysis # JNull

\* Every path of a run calls exactly one of setError (with a message) and
\* setCurrentAnalysis, and none before it ends.
OneSetterCallPerRun ==
  \A i \in SubIds :
    /\ Unfinished(i) => (subs[i].errorsSet = 0 /\ subs[i].resultsSet = 0)
    /\ Finished(i) => subs[i].errorsSet + subs[i].resultsSet = 1
    /\ (Finished(i) /\ subs[i].errorsSet = 1) => error # NoError

C10_FenceRoundTrip ==
  stage = "done" => (direct.ok /\ viaPipeline = direct)

\* analysisSchema.required, the names as sequences of characters; part_000
\* does not list suggestedCorrections (it has no such property).
textWithErrorsHighlighted ==
  <<"t", "e", "x", "t", "W", "i", "t", "h", "E", "r", "r", "o", "r", "s", "H", "i", "g", "h", "l", "i", "g", "h", "t", "e", "d">>
suggestedCorrections ==
  <<"s", "u", "g", "g", "e", "s", "t", "e", "d", "C", "o", "r", "r", "e", "c", "t", "i", "o", "n", "s">>
headlinesAndSubheadlines ==
  <<"h", "e", "a", "d", "l", "i", "n", "e", "s", "A", "n", "d", "S", "u", "b", "h", "e", "a", "d", "l", "i", "n", "e", "s">>
required ==
  IF build = "part_000"
  THEN {textWithErrorsHighlighted, headlinesAndSubheadlines}
  ELSE {textWithErrorsHighlighted, suggestedCorrections, headlinesAndSubheadlines}

\* v is an object with a member named name.
HasMember(v, name) ==
  v.kind = "object" /\ \E k \in 1..Len(v.members) : v.members[k][1] = name

\* C11: a value in the current-result slot is an object that has every
\* required member of the response schema; a parsed response without one is
\* not stored.
C11_StoredResultHasSchemaFields ==
  currentAnalysis # JNull => \A name \in required : HasMember(currentAnalysis, name)

\* C12: a run whose third attempt has failed shows the error that carries the
\* message of that third failure, whatever the first two failures were.
C12_LastErrorIsShown ==
  \A i \in SubIds :
    (Finished(i) /\ Len(subs[i].failures) = 3)
      => /\ subs[i].resultsSet = 0
         /\ error = FailedAfterThree(subs[i].failures[3])

\* C12 witness: a run has ended after three failures of three different
\* kinds.
C12_Witness ==
  \E i \in SubIds :
    /\ Finished(i)
    /\ Len(subs[i].failures) = 3
    /\ subs[i].failures[1] # subs[i].failures[3]
    /\ subs[i].failures[2] # subs[i].failures[3]
    /\ subs[i].failures[1] # subs[i].failures[2]
    /\ error.cause = subs[i].failures[3]

\* The run in slot i has ended by a success or by three failed attempts, and
\* the loading flag is down.
Ended(i) ==
  /\ Finished(i)
  /\ ~isLoading
  /\ \/ subs[i].resultsSet = 1 /\ subs[i].errorsSet = 0
     \/ subs[i].resultsSet = 0 /\ subs[i].errorsSet = 1 /\ Len(subs[i].failures) = 3
\* The run in slot i waits for a retry that the bound on calls keeps from
\* being issued.
CutOff(i) ==
  subs[i].pc = "backoff" /\ subs[i].calls < 3 /\ fetches = MaxCalls

C14_HeadlineCountIsAnOption ==
  \A i \in SubIds :
    \A k \in 1..Len(subs[i].prompts) :
      /\ subs[i].prompts[k] \in HeadlineOptions
      /\ subs[i].prompts[k] >= 5
      /\ subs[i].prompts[k] <= 25

\* C15: a run takes the headline count the selector has when the run is
\* started, keeps it until it ends, and writes it into the prompt of each
\* network call it issues, the first and the retries alike, also when the
\* selector was changed after the run was started.
C15_PromptCarriesSelectedCount ==
  [][\A i \in SubIds :
       /\ (Runs[i].pc = "idle" /\ subs'[i].pc # "idle")
            => subs'[i].numHeadlines = numHeadlines
       /\ (Runs[i].pc # "idle" /\ subs'[i].pc # "idle")
            => subs'[i].numHeadlines = subs[i].numHeadlines
       /\ Len(subs'[i].prompts) = subs'[i].calls
       /\ \A k \in 1..Len(subs'[i].prompts) :
            subs'[i].prompts[k] = subs'[i].numHeadlines]_vars

\* C15 witness: the second call of a run is out, and the selector was changed
\* between the start of the run and its first call.
C15_Witness ==
  \E i \in SubIds :
    /\ subs[i].pc = "fetching"
    /\ subs[i].calls = 2
    /\ subs[i].prompts = <<subs[i].numHeadlines, subs[i].numHeadlines>>
    /\ subs[i].numHeadlines # numHeadlines

\* C16: the step in which the conversion of a run's image fails ends the run
\* and shows the conversion error, an error of its own text that names no
\* attempts; the run has issued no network call and has not raised the
\* loading flag, and the step changes neither the loading flag nor the
\* current result nor the number of calls issued.
C16_ConversionFailureIsSurfaced ==
  [][\A i \in SubIds :
       (subs[i].pc = "converting" /\ subs'[i].pc = "done")
         => /\ error' = ConversionFailed
            /\ error'.text # AnalysisFailed("").text
            /\ error'.attempts = 0
            /\ subs'[i].errorsSet = 1
            /\ subs'[i].resultsSet = 0
            /\ subs'[i].calls = 0
            /\ ~subs'[i].raisedLoading
            /\ fetches' = fetches
            /\ isLoading' = isLoading
            /\ currentAnalysis' = currentAnalysis]_vars

\* C16 witness: the conversion of a run's image has failed while the result
\* of an earlier run is in the slot.
C16_Witness ==
  \E i \in SubIds :
    /\ Finished(i)
    /\ subs[i].imageFile # NoFile
    /\ subs[i].base64Image = ""
    /\ subs[i].calls = 0
    /\ error = ConversionFailed
    /\ Truthy(currentAnalysis)
    /\ ~isLoading

\* What the bootstrap has done so far agrees with the order token first,
\* anonymous as the fallback.
BootstrapOrder ==
  /\ bootstrap.tried \in {<<>>, <<"token">>, <<"anonymous">>, <<"token", "anonymous">>}
  /\ bootstrap.tried # <<>> => currentUser # "existing"
  /\ bootstrap.pc \in {"token", "anonymous", "done", "rejected"}
       => /\ bootstrap.tried # <<>>
          /\ initialAuthToken # "" => bootstrap.tried[1] = "token"
          /\ initialAuthToken = "" => bootstrap.tried = <<"anonymous">>
  /\ bootstrap.token = "pending" => bootstrap.tried = <<"token">>
  /\ bootstrap.token = "failed" => bootstrap.tried = <<"token", "anonymous">>
  /\ bootstrap.token = "ok"
       => (bootstrap.tried = <<"token">> /\ currentUser = "custom" /\ isAuthReady)
  /\ currentUser = "anonymous"
       => (initialAuthToken = "" \/ bootstrap.token = "failed")

Outstanding(i) == subs[i].calls - Len(subs[i].failures) - subs[i].resultsSet

\* The attempts of the run in slot i so far came one after the other: at most
\* one call is out, and it is out exactly while the run awaits it; every
\* earlier call has failed; a pending call follows one elapsed delay per
\* failure, and a pending delay follows the latest failure.
Sequential(i) ==
  /\ Outstanding(i) \in {0, 1}
  /\ Outstanding(i) = 1 <=> subs[i].pc = "fetching"
  /\ subs[i].pc = "fetching"
       => /\ Len(subs[i].failures) = subs[i].calls - 1
          /\ Len(subs[i].delays) = subs[i].calls - 1
  /\ subs[i].pc = "backoff"
       => /\ Len(subs[i].failures) = subs[i].calls
          /\ Len(subs[i].delays) = subs[i].calls

\* C18 as stated: the attempts of a run are sequential, and an unfinished run
\* is suspended on a network call or on a backoff delay.
C18_SuspendedOnCallOrDelayOnly ==
  \A i \in SubIds :
    /\ Sequential(i)
    /\ Unfinished(i) => subs[i].pc \in {"fetching", "backoff"}

\* C18 as amended: the attempts of a run are sequential; a retry is issued
\* only by the step in which the delay after the failed attempt before it
\* elapses; once its first call is issued, an unfinished run is suspended on a
\* network call or on a backoff delay; before its first call a run with an
\* image is also suspended on the conversion of the file, with no call and
\* no delay pending.
C18_SequentialAttempts ==
  /\ [](\A i \in SubIds :
          /\ Sequential(i)
          /\ (Unfinished(i) /\ subs[i].calls > 0) => subs[i].pc \in {"fetching", "backoff"}
          /\ (Unfinished(i) /\ subs[i].calls = 0)
               => (subs[i].pc = "converting" /\ subs[i].imageFile # NoFile))
  /\ [][\A i \in SubIds :
          /\ subs'[i].calls > 1 /\ subs'[i].pc = "fetching" /\ subs[i].pc # "fetching"
               => /\ subs[i].pc = "backoff"
                  /\ subs'[i].calls = subs[i].calls + 1
                  /\ Len(subs[i].failures) = subs[i].calls
                  /\ Len(subs[i].delays) = subs[i].calls
          /\ subs[i].pc = "fetching"
               => (subs'[i] = subs[i] \/ subs'[i].pc # "fetching")]_vars

\* C18 witness: the third call of a run with an image is out, after two
\* failures and two delays.
C18_Witness ==
  \E i \in SubIds :
    /\ subs[i].pc = "fetching"
    /\ subs[i].imageFile # NoFile
    /\ subs[i].calls = 3
    /\ Len(subs[i].failures) = 2
    /\ subs[i].delays = <<1000, 2000>>

\* C19: while a network call or a backoff timer of any run is pending, the
\* loading flag is up.
C19_PendingImpliesLoading ==
  (\E i \in SubIds : subs[i].pc \in {"fetching", "backoff"}) => isLoading

\* C20: while an error message is shown the current-result slot is empty.
C20_ErrorWithoutResult ==
  error # NoError => currentAnalysis = JNull

====
